---- MODULE Spec2Model ----
(***************************************************************************)
(* repo_slice.py: one invocation of main().  The search process and the    *)
(* file system are the environment: the process's output is chosen when    *)
(* subprocess.run returns, a file's state is chosen when slice_window      *)
(* looks at it.                                                            *)
(*                                                                         *)
(* Text is modelled as follows.  A short string (pattern, stderr) is a     *)
(* sequence of characters.  The process's stdout is the sequence of its    *)
(* lines, each line a record saying what json.loads and the .get() chain   *)
(* find in it.  A file is the sequence of its lines, line k of a file of n *)
(* lines being the number k.  A window is a record: hdr holds the header   *)
(* line (no header: the empty string), body the source lines under it.     *)
(***************************************************************************)
EXTENDS Integers, Sequences, FiniteSets, TLC

VARIABLES
    pc,          \* position in main(): main, run_rg, sas, print, done, raised
    argv,        \* sys.argv
    root_exists, \* repo_root.exists()
    pattern,     \* main's locals, set by the argument parsing
    max_hits,
    radius,
    stdout,      \* proc.stdout, as lines
    stderr,      \* proc.stderr, recorded on the path that reads it
    spawned,     \* external processes started
    completed,   \* external processes that have finished
    matches,     \* what run_rg returned
    idx,         \* search_and_slice's loop position in matches (1-based)
    sliced,      \* per loop iteration: the file state seen and the window
    results,     \* search_and_slice's results list
    reads,       \* the read_text calls made, in order
    hits,        \* what search_and_slice returned to main
    printed,     \* everything printed, in order
    ret,         \* main's return value (-1: none yet)
    err,         \* the exception that ended the run ("" : none)
    sl_pc,       \* slice_window called on its own: call, ret
    sl_arg,
    sl_ret

vars == <<pc, argv, root_exists, pattern, max_hits, radius, stdout, stderr,
          spawned, completed, matches, idx, sliced, results, reads, hits,
          printed, ret, err, sl_pc, sl_arg, sl_ret>>

mainVars == <<pc, argv, root_exists, pattern, max_hits, radius, stdout, stderr,
              spawned, completed, matches, idx, sliced, results, reads, hits,
              printed, ret, err>>

sliceVars == <<sl_pc, sl_arg, sl_ret>>

\* ---------------------------------------------------------------- bounds

\* lines of search output
MaxOut == 2
\* lines of a file at the moment it is sliced, in one invocation
MaxLines == 2
\* largest line number a match record carries
MaxLineNo == 2
\* slice_window on its own: file length, radius, negative radius
SliceMaxLines == 10
SliceMaxRadius == 5
SliceMaxNegRadius == 2

\* ------------------------------------------------------- program constants

DefaultMaxHits == 8
DefaultRadius == 60

\* ------------------------------------------------------------------ text

Min(a, b) == IF a < b THEN a ELSE b
Max(a, b) == IF a > b THEN a ELSE b

IsSpace(c) == c = " "

RECURSIVE LStrip(_)
LStrip(s) == IF s = <<>> THEN s
             ELSE IF IsSpace(Head(s)) THEN LStrip(Tail(s)) ELSE s

RECURSIVE RStrip(_)
RStrip(s) == IF s = <<>> THEN s
             ELSE IF IsSpace(s[Len(s)]) THEN RStrip(SubSeq(s, 1, Len(s) - 1)) ELSE s

\* str.strip()
Strip(s) == RStrip(LStrip(s))

Patterns == {<<>>, <<" ">>, <<"x">>, <<" ", "x">>}
StderrTexts == {<<>>, <<" ">>, <<"e">>, <<"e", " ">>}

\* ------------------------------------------------------------- arguments

IntArg(v) == [isint |-> TRUE, val |-> v]
NotInt == [isint |-> FALSE, val |-> 0]

MaxHitsArgs == {NotInt, IntArg(0), IntArg(1), IntArg(2)}
RadiusArgs == {NotInt, IntArg(-1), IntArg(0), IntArg(1)}

\* sys.argv: its length, and the arguments main looks at
ArgVectors ==
    {[argc |-> n, pattern |-> <<>>, a3 |-> NotInt, a4 |-> NotInt] : n \in 1..2}
    \cup {[argc |-> 3, pattern |-> p, a3 |-> NotInt, a4 |-> NotInt] : p \in Patterns}
    \cup {[argc |-> 4, pattern |-> p, a3 |-> a, a4 |-> NotInt] :
              p \in Patterns, a \in MaxHitsArgs}
    \cup {[argc |-> 5, pattern |-> p, a3 |-> a, a4 |-> b] :
              p \in Patterns, a \in MaxHitsArgs, b \in RadiusArgs}

\* int(s): a value, or ValueError
ParseInt(a) == [ok |-> a.isint, val |-> a.val]

\* ---------------------------------------------------------- search output

Line(j, t, hp, p, isint, v) ==
    [json |-> j, type |-> t, haspath |-> hp, path |-> p, isint |-> isint, val |-> v]

BlankLine == Line("blank", "", FALSE, "", FALSE, 0)
MalformedLine == Line("malformed", "", FALSE, "", FALSE, 0)
BeginLine == Line("object", "begin", TRUE, "a", FALSE, 0)
NoPathLine == Line("object", "match", FALSE, "", TRUE, 1)
NoIntLine == Line("object", "match", TRUE, "a", FALSE, 0)
MatchLine(f, n) == Line("object", "match", TRUE, f, TRUE, n)

OutLines ==
    {BlankLine, MalformedLine, BeginLine, NoPathLine, NoIntLine}
    \cup {MatchLine("a", n) : n \in 0..MaxLineNo}
    \cup {MatchLine("b", 1)}

Stdouts == UNION {[1..n -> OutLines] : n \in 0..MaxOut}

\* stdout.strip() == ""
StdoutIsBlank(out) == \A k \in 1..Len(out) : out[k].json = "blank"

\* ------------------------------------------------------------- run_rg

PatternIsBlank_NoStrip(p) == p = <<>>

\* pattern.strip() == ""
PatternIsBlank(p) == Strip(p) = <<>>

P(kind, text, i, n) == [kind |-> kind, text |-> text, i |-> i, n |-> n]

Diagnostic_Raw(e) == IF e # <<>> THEN <<P("stderr", e, 0, 0)>> ELSE <<>>

\* stderr = (proc.stderr or "").strip(); if stderr != "": print(stderr)
Diagnostic(e) == IF Strip(e) # <<>> THEN <<P("stderr", Strip(e), 0, 0)>> ELSE <<>>

\* len(hits) >= max_hits, tested after the append
CapReached(n, cap) == n >= cap

\* the loop over stdout.splitlines(): the matches, or the exception of json.loads
RECURSIVE run_rg_decode(_, _, _, _)
run_rg_decode(lines, k, acc, cap) ==
    IF k > Len(lines) THEN [raised |-> FALSE, hits |-> acc]
    ELSE LET ln == lines[k] IN
         IF ln.json = "blank" THEN run_rg_decode(lines, k + 1, acc, cap)
         ELSE IF ln.json = "malformed" THEN [raised |-> TRUE, hits |-> acc]
         ELSE IF ln.type # "match" THEN run_rg_decode(lines, k + 1, acc, cap)
         ELSE IF ~ln.haspath THEN run_rg_decode(lines, k + 1, acc, cap)
         ELSE IF ~ln.isint THEN run_rg_decode(lines, k + 1, acc, cap)
         ELSE LET acc2 == Append(acc, [file |-> ln.path, line |-> ln.val]) IN
              IF CapReached(Len(acc2), cap) THEN [raised |-> FALSE, hits |-> acc2]
              ELSE run_rg_decode(lines, k + 1, acc2, cap)

\* ---------------------------------------------------------- slice_window

FileStates(n) ==
    {[status |-> "missing", n |-> 0], [status |-> "unreadable", n |-> 0]}
    \cup {[status |-> "ok", n |-> k] : k \in 0..n}

\* text.splitlines()
FileLines(n) == [k \in 1..n |-> k]

\* lines[start:end]
PySlice(lines, start, end) ==
    LET n == Len(lines)
        s == IF start < 0 THEN Max(start + n, 0) ELSE Min(start, n)
        e == IF end < 0 THEN Max(end + n, 0) ELSE Min(end, n)
    IN IF s >= e THEN <<>> ELSE SubSeq(lines, s + 1, e)

EmptyText == [hdr |-> <<>>, body |-> <<>>]

\* window.strip() == "": a header line is never blank, nor is a source line
TextIsBlank(w) == Len(w.hdr) = 0 /\ Len(w.body) = 0

CenterRejected_Negative(center) == center < 0

\* center_line <= 0
CenterRejected(center) == center <= 0

WindowEnd_Short(i, r, n) == Min(i + r, n)

\* end = min(idx + radius + 1, len(lines))
WindowEnd(i, r, n) == Min(i + r + 1, n)

\* start = max(idx - radius, 0)
WindowStart(i, r) == Max(i - r, 0)

slice_window(fs, file, center, r) ==
    IF fs.status = "missing" THEN [raised |-> FALSE, read |-> FALSE, window |-> EmptyText]
    ELSE IF CenterRejected(center)
        THEN [raised |-> FALSE, read |-> FALSE, window |-> EmptyText]
    ELSE IF fs.status = "unreadable"
        THEN [raised |-> TRUE, read |-> TRUE, window |-> EmptyText]
    ELSE LET lines == FileLines(fs.n) IN
         IF Len(lines) = 0 THEN [raised |-> FALSE, read |-> TRUE, window |-> EmptyText]
         ELSE LET i == Max(center - 1, 0)
                  start == WindowStart(i, r)
                  end == WindowEnd(i, r, Len(lines))
              IN [raised |-> FALSE, read |-> TRUE,
                  window |-> [hdr |-> <<[file |-> file, center |-> center,
                                         lo |-> start + 1, hi |-> end]>>,
                              body |-> PySlice(lines, start, end)]]

\* ------------------------------------------------------ search_and_slice

Hit(file, line, window) == [file |-> file, line |-> line, window |-> window]

AppendHit_Dedup(rs, h) ==
    IF \E k \in 1..Len(rs) : rs[k].file = h.file /\ rs[k].line = h.line
    THEN rs ELSE Append(rs, h)

\* results.append(Hit(...))
AppendHit(rs, h) == Append(rs, h)

\* ------------------------------------------------------------------ main

InitMain ==
    /\ pc = "main"
    /\ argv \in ArgVectors
    /\ root_exists \in BOOLEAN
    /\ pattern = <<>>
    /\ max_hits = 0
    /\ radius = 0
    /\ stdout = <<>>
    /\ stderr = <<>>
    /\ spawned = 0
    /\ completed = 0
    /\ matches = <<>>
    /\ idx = 1
    /\ sliced = <<>>
    /\ results = <<>>
    /\ reads = <<>>
    /\ hits = <<>>
    /\ printed = <<>>
    /\ ret = -1
    /\ err = ""

SliceOff ==
    /\ sl_pc = "off"
    /\ sl_arg = [fs |-> [status |-> "missing", n |-> 0], center |-> 0, radius |-> 0]
    /\ sl_ret = [raised |-> FALSE, read |-> FALSE, window |-> EmptyText]

Init == InitMain /\ SliceOff

main_usage ==
    /\ pc = "main"
    /\ argv.argc < 3
    /\ printed' = printed \o <<P("usage", <<>>, 0, 0), P("example", <<>>, 0, 0)>>
    /\ ret' = 2
    /\ pc' = "done"
    /\ UNCHANGED <<argv, root_exists, pattern, max_hits, radius, stdout, stderr,
                   spawned, completed, matches, idx, sliced, results, reads, hits,
                   err>>
    /\ UNCHANGED sliceVars

ArgsParse ==
    (argv.argc >= 4 => ParseInt(argv.a3).ok) /\ (argv.argc >= 5 => ParseInt(argv.a4).ok)

main_bad_int ==
    /\ pc = "main"
    /\ argv.argc >= 3
    /\ ~ArgsParse
    /\ pc' = "raised"
    /\ err' = "ValueError"
    /\ UNCHANGED <<argv, root_exists, pattern, max_hits, radius, stdout, stderr,
                   spawned, completed, matches, idx, sliced, results, reads, hits,
                   printed, ret>>
    /\ UNCHANGED sliceVars

main_parse ==
    /\ pc = "main"
    /\ argv.argc >= 3
    /\ ArgsParse
    /\ pattern' = argv.pattern
    /\ max_hits' = IF argv.argc >= 4 THEN ParseInt(argv.a3).val ELSE DefaultMaxHits
    /\ radius' = IF argv.argc >= 5 THEN ParseInt(argv.a4).val ELSE DefaultRadius
    /\ pc' = "run_rg"
    /\ UNCHANGED <<argv, root_exists, stdout, stderr, spawned, completed, matches,
                   idx, sliced, results, reads, hits, printed, ret, err>>
    /\ UNCHANGED sliceVars

run_rg_not_found ==
    /\ pc = "run_rg"
    /\ ~root_exists
    /\ pc' = "raised"
    /\ err' = "FileNotFoundError"
    /\ UNCHANGED <<argv, root_exists, pattern, max_hits, radius, stdout, stderr,
                   spawned, completed, matches, idx, sliced, results, reads, hits,
                   printed, ret>>
    /\ UNCHANGED sliceVars

run_rg_empty_pattern ==
    /\ pc = "run_rg"
    /\ root_exists
    /\ PatternIsBlank(pattern)
    /\ matches' = <<>>
    /\ pc' = "sas"
    /\ UNCHANGED <<argv, root_exists, pattern, max_hits, radius, stdout, stderr,
                   spawned, completed, idx, sliced, results, reads, hits, printed,
                   ret, err>>
    /\ UNCHANGED sliceVars

\* subprocess.run blocks until the process has ended, then the output is decoded
run_rg_search ==
    /\ pc = "run_rg"
    /\ root_exists
    /\ ~PatternIsBlank(pattern)
    /\ \E out \in Stdouts, e \in StderrTexts :
         /\ spawned' = spawned + 1
         /\ completed' = completed + 1
         /\ stdout' = out
         /\ IF StdoutIsBlank(out)
            THEN /\ stderr' = e
                 /\ printed' = printed \o Diagnostic(e)
                 /\ matches' = <<>>
                 /\ pc' = "sas"
                 /\ err' = err
            ELSE LET d == run_rg_decode(out, 1, <<>>, max_hits) IN
                 /\ stderr' = <<>>
                 /\ printed' = printed
                 /\ IF d.raised
                    THEN pc' = "raised" /\ err' = "JSONDecodeError" /\ matches' = matches
                    ELSE pc' = "sas" /\ err' = err /\ matches' = d.hits
    /\ UNCHANGED <<argv, root_exists, pattern, max_hits, radius, idx, sliced,
                   results, reads, hits, ret>>
    /\ UNCHANGED sliceVars

search_and_slice_empty ==
    /\ pc = "sas"
    /\ Len(matches) = 0
    /\ hits' = <<>>
    /\ pc' = "print"
    /\ UNCHANGED <<argv, root_exists, pattern, max_hits, radius, stdout, stderr,
                   spawned, completed, matches, idx, sliced, results, reads,
                   printed, ret, err>>
    /\ UNCHANGED sliceVars

search_and_slice_iter ==
    /\ pc = "sas"
    /\ Len(matches) > 0
    /\ idx <= Len(matches)
    /\ \E fs \in FileStates(MaxLines) :
         LET m == matches[idx]
             r == slice_window(fs, m.file, m.line, radius)
         IN /\ reads' = IF r.read THEN Append(reads, m) ELSE reads
            /\ IF r.raised
               THEN /\ pc' = "raised"
                    /\ err' = "OSError"
                    /\ UNCHANGED <<idx, sliced, results>>
               ELSE /\ pc' = pc
                    /\ err' = err
                    /\ idx' = idx + 1
                    /\ sliced' = Append(sliced, [fs |-> fs, window |-> r.window])
                    /\ results' = IF TextIsBlank(r.window) THEN results
                                  ELSE AppendHit(results, Hit(m.file, m.line, r.window))
    /\ UNCHANGED <<argv, root_exists, pattern, max_hits, radius, stdout, stderr,
                   spawned, completed, matches, hits, printed, ret>>
    /\ UNCHANGED sliceVars

search_and_slice_return ==
    /\ pc = "sas"
    /\ Len(matches) > 0
    /\ idx > Len(matches)
    /\ hits' = results
    /\ pc' = "print"
    /\ UNCHANGED <<argv, root_exists, pattern, max_hits, radius, stdout, stderr,
                   spawned, completed, matches, idx, sliced, results, reads,
                   printed, ret, err>>
    /\ UNCHANGED sliceVars

main_no_matches ==
    /\ pc = "print"
    /\ Len(hits) = 0
    /\ printed' = Append(printed, P("nomatch", <<>>, 0, 0))
    /\ ret' = 0
    /\ pc' = "done"
    /\ UNCHANGED <<argv, root_exists, pattern, max_hits, radius, stdout, stderr,
                   spawned, completed, matches, idx, sliced, results, reads, hits,
                   err>>
    /\ UNCHANGED sliceVars

\* per hit: the banner, then the window
HitPrints(hs) ==
    [k \in 1..(2 * Len(hs)) |->
        IF k % 2 = 1 THEN P("banner", <<>>, (k + 1) \div 2, Len(hs))
        ELSE P("window", <<>>, k \div 2, Len(hs))]

main_print_hits ==
    /\ pc = "print"
    /\ Len(hits) > 0
    /\ printed' = printed \o HitPrints(hits)
    /\ ret' = 0
    /\ pc' = "done"
    /\ UNCHANGED <<argv, root_exists, pattern, max_hits, radius, stdout, stderr,
                   spawned, completed, matches, idx, sliced, results, reads, hits,
                   err>>
    /\ UNCHANGED sliceVars

Next ==
    \/ main_usage
    \/ main_bad_int
    \/ main_parse
    \/ run_rg_not_found
    \/ run_rg_empty_pattern
    \/ run_rg_search
    \/ search_and_slice_empty
    \/ search_and_slice_iter
    \/ search_and_slice_return
    \/ main_no_matches
    \/ main_print_hits

Spec == Init /\ [][Next]_vars

\* ------------------------------------------- slice_window called on its own

MainOff ==
    /\ pc = "off"
    /\ argv = [argc |-> 1, pattern |-> <<>>, a3 |-> NotInt, a4 |-> NotInt]
    /\ root_exists = FALSE
    /\ pattern = <<>>
    /\ max_hits = 0
    /\ radius = 0
    /\ stdout = <<>>
    /\ stderr = <<>>
    /\ spawned = 0
    /\ completed = 0
    /\ matches = <<>>
    /\ idx = 1
    /\ sliced = <<>>
    /\ results = <<>>
    /\ reads = <<>>
    /\ hits = <<>>
    /\ printed = <<>>
    /\ ret = -1
    /\ err = ""

InitSlice ==
    /\ MainOff
    /\ sl_pc = "call"
    /\ sl_arg \in [fs : FileStates(SliceMaxLines),
                   center : (0 - 1)..(SliceMaxLines + 1),
                   radius : (0 - SliceMaxNegRadius)..SliceMaxRadius]
    /\ sl_ret = [raised |-> FALSE, read |-> FALSE, window |-> EmptyText]

slice_window_call ==
    /\ sl_pc = "call"
    /\ sl_ret' = slice_window(sl_arg.fs, "a", sl_arg.center, sl_arg.radius)
    /\ sl_pc' = "ret"
    /\ UNCHANGED sl_arg
    /\ UNCHANGED mainVars

NextSlice == slice_window_call

SpecSlice == InitSlice /\ [][NextSlice]_vars

\* ------------------------------------------------------------ properties

\* the arguments were parsed: main's locals hold the caller's values
Parsed == pc \in {"run_rg", "sas", "print", "done"} \/ (pc = "raised" /\ err # "ValueError")

\* run_rg has returned to search_and_slice
Returned == pc \in {"sas", "print", "done"} \/ (pc = "raised" /\ err = "OSError")

NoMatchPrints == {k \in 1..Len(printed) : printed[k].kind = "nomatch"}
StderrPrints == {k \in 1..Len(printed) : printed[k].kind = "stderr"}

\* C1: the list run_rg returns, and so the list of Hits, has at most max_hits
\* entries, whatever max_hits and the search output are.
C1_HitCap ==
    Returned => Len(matches) <= max_hits /\ Len(results) <= max_hits /\ Len(hits) <= max_hits

\* the match records of the output that carry a path and an integer line number
RECURSIVE WellFormed(_)
WellFormed(out) ==
    IF out = <<>> THEN <<>>
    ELSE LET ln == Head(out) IN
         IF ln.json = "object" /\ ln.type = "match" /\ ln.haspath /\ ln.isint
         THEN <<[file |-> ln.path, line |-> ln.val]>> \o WellFormed(Tail(out))
         ELSE WellFormed(Tail(out))

\* C2: a malformed line, a match without data.path.text or with a non-integer
\* line number is skipped: run_rg raises nothing and returns the well-formed
\* match records in order, all of them or as many as the cap lets through.
C2_AnomaliesAbsorbed ==
    (spawned = 1 /\ ~StdoutIsBlank(stdout)) =>
        /\ err # "JSONDecodeError"
        /\ Returned
        /\ LET wf == WellFormed(stdout) IN
           /\ Len(matches) <= Len(wf)
           /\ matches = SubSeq(wf, 1, Len(matches))
           /\ (Len(matches) = Len(wf) \/ Len(matches) >= max_hits)

\* C3: for an existing file of N >= 1 lines, 1 <= L <= N and R >= 0 the header
\* names the range [max(L-1-R,0)+1, min(L+R,N)] and the body is exactly the
\* file's lines of that range, in order; L=1,R=5,N=3 gives 1-3 and
\* L=5,R=2,N=10 gives 3-7.
C3_SlicerRange ==
    LET N == sl_arg.fs.n
        L == sl_arg.center
        R == sl_arg.radius
        w == sl_ret.window
    IN (sl_pc = "ret" /\ sl_arg.fs.status = "ok" /\ N >= 1 /\ 1 <= L /\ L <= N /\ R >= 0) =>
        LET start == Max(L - 1 - R, 0)
            end == Min(L + R, N)
        IN /\ ~sl_ret.raised
           /\ Len(w.hdr) = 1
           /\ w.hdr[1].center = L
           /\ w.hdr[1].lo = start + 1
           /\ w.hdr[1].hi = end
           /\ Len(w.body) = end - start
           /\ \A k \in 1..(end - start) : w.body[k] = FileLines(N)[start + k]
           /\ (L = 1 /\ R = 5 /\ N = 3 => w.hdr[1].lo = 1 /\ w.hdr[1].hi = 3)
           /\ (L = 5 /\ R = 2 /\ N = 10 =>
                 w.hdr[1].lo = 3 /\ w.hdr[1].hi = 7 /\ w.body = <<3, 4, 5, 6, 7>>)

C3_Witness ==
    /\ sl_pc = "ret"
    /\ sl_arg = [fs |-> [status |-> "ok", n |-> 10], center |-> 5, radius |-> 2]
    /\ sl_ret.window.body = <<3, 4, 5, 6, 7>>

\* C4: fewer than two positional arguments: usage, status 2, no search; else
\* the run ends either in the 'repo root not found' error or with status 0,
\* 'No matches.' printed exactly when there are no hits; nothing else.
C4_EntryOutcomes ==
    /\ argv.argc < 3 =>
         /\ pc \in {"main", "done"}
         /\ spawned = 0
         /\ (pc = "done" => ret = 2 /\ Len(printed) = 2 /\ printed[1].kind = "usage")
    /\ argv.argc >= 3 =>
         /\ (pc = "raised" => err = "FileNotFoundError")
         /\ (pc = "done" => ret = 0 /\ (NoMatchPrints # {} <=> hits = <<>>))

\* C5: with an existing repo root and a pattern that is empty or all
\* whitespace no process is ever started, run_rg returns no match,
\* search_and_slice returns no Hit and no file is read.
C5_EmptyPatternShortCircuit ==
    (Parsed /\ root_exists /\ Strip(argv.pattern) = <<>>) =>
        /\ spawned = 0
        /\ completed = 0
        /\ pc # "raised"
        /\ matches = <<>>
        /\ reads = <<>>
        /\ sliced = <<>>
        /\ results = <<>>
        /\ hits = <<>>

C5_Witness ==
    pc = "done" /\ argv.argc >= 3 /\ root_exists /\ argv.pattern = <<" ">> /\ spawned = 0

\* the Hits of the first k matches: those whose window is not blank, in order
RECURSIVE Kept(_)
Kept(k) ==
    IF k = 0 THEN <<>>
    ELSE IF Len(sliced[k].window.hdr) = 0 /\ Len(sliced[k].window.body) = 0
         THEN Kept(k - 1)
         ELSE Append(Kept(k - 1), Hit(matches[k].file, matches[k].line, sliced[k].window))

\* C6: the Hits are the matches in decoder order, duplicates kept, less
\* exactly the matches whose window is empty or blank; no Hit has a blank
\* window and there are no more Hits than matches.
C6_OrderPreservingFilter ==
    Returned =>
        /\ Len(sliced) <= Len(matches)
        /\ results = Kept(Len(sliced))
        /\ Len(results) <= Len(matches)
        /\ \A k \in 1..Len(results) :
             Len(results[k].window.hdr) > 0 \/ Len(results[k].window.body) > 0
        /\ (pc \in {"print", "done"} =>
              /\ Len(sliced) = Len(matches)
              /\ hits = Kept(Len(matches)))

C6_Witness ==
    /\ pc = "print"
    /\ Len(matches) = 2
    /\ matches[1] = matches[2]
    /\ Len(hits) = 2
    /\ hits[1].window # hits[2].window

\* C7 as stated: blank stdout and non-empty stderr: the error text is printed
\* once, run_rg returns no match and raises nothing; main then prints
\* 'No matches.' and returns 0.
C7_ToolFailure_Original ==
    (spawned = 1 /\ StdoutIsBlank(stdout) /\ stderr # <<>>) =>
        /\ pc # "raised"
        /\ matches = <<>>
        /\ Cardinality(StderrPrints) = 1
        /\ (pc = "done" => ret = 0 /\ Cardinality(NoMatchPrints) = 1)

\* C7 amended: blank stdout and a stderr that is not blank: the stripped error
\* text is printed once (a stderr of whitespace only prints nothing), run_rg
\* returns no match and raises nothing; main then prints 'No matches.' and
\* returns 0.
C7_ToolFailure ==
    (spawned = 1 /\ StdoutIsBlank(stdout)) =>
        /\ pc # "raised"
        /\ matches = <<>>
        /\ (Strip(stderr) # <<>> =>
              /\ Cardinality(StderrPrints) = 1
              /\ printed[1] = P("stderr", Strip(stderr), 0, 0))
        /\ (Strip(stderr) = <<>> => StderrPrints = {})
        /\ (pc = "done" =>
              /\ ret = 0
              /\ Cardinality(NoMatchPrints) = 1
              /\ printed[Len(printed)].kind = "nomatch")

C7_Witness ==
    /\ pc = "done"
    /\ spawned = 1
    /\ StdoutIsBlank(stdout)
    /\ stderr = <<"e", " ">>
    /\ printed = <<P("stderr", <<"e">>, 0, 0), P("nomatch", <<>>, 0, 0)>>
    /\ ret = 0

\* C8: a file is read only after the one search process has been started and
\* has finished, no process is started afterwards, there is one read attempt
\* per decoded match at most, and the number of file reads never exceeds
\* max_hits.
C8_Sequencing ==
    /\ spawned <= 1
    /\ completed = spawned
    /\ (reads # <<>> => spawned = 1 /\ completed = 1)
    /\ Len(reads) <= Len(matches)
    /\ (Parsed => Len(reads) <= max_hits)

\* C9 as stated: every line number passed to slice_window is strictly positive.
C9_PositiveLines_Original ==
    \A k \in 1..Len(sliced) : matches[k].line >= 1

\* C9 amended: slice_window may be handed a line number <= 0 and then returns
\* the empty window without reading the file; every line number a file is read
\* for, and every Hit's line, is strictly positive.
C9_PositiveLines ==
    /\ \A k \in 1..Len(reads) : reads[k].line >= 1
    /\ \A k \in 1..Len(results) : results[k].line >= 1
    /\ \A k \in 1..Len(hits) : hits[k].line >= 1
    /\ \A k \in 1..Len(sliced) : matches[k].line <= 0 => sliced[k].window = EmptyText

C9_Witness ==
    /\ pc = "done"
    /\ Len(matches) = 2
    /\ matches[1].line = 0
    /\ sliced[1].fs = [status |-> "ok", n |-> 2]
    /\ sliced[1].window = EmptyText
    /\ Len(reads) = 1
    /\ Len(hits) = 1

\* C10: every window of a returned Hit names a range with
\* 1 <= start+1 <= end <= N that contains the center line, over a body of at
\* least one source line.
C10_WellFormedWindows ==
    pc \in {"print", "done"} =>
    \A k \in 1..Len(sliced) :
        LET w == sliced[k].window
            N == sliced[k].fs.n
        IN ~TextIsBlank(w) =>
             /\ 1 <= w.hdr[1].lo
             /\ w.hdr[1].lo <= w.hdr[1].hi
             /\ w.hdr[1].hi <= N
             /\ w.hdr[1].lo <= matches[k].line
             /\ matches[k].line <= w.hdr[1].hi
             /\ Len(w.body) >= 1

====
